---- MODULE Spec2Model ----
(***************************************************************************)
(* Model of streamlit_app.py: the push-notification dashboard.  One run of *)
(* the script is the pipeline                                              *)
(*   read_csv -> open rates -> Day/Entity/Slot filter -> overview tiles    *)
(*   -> groupby x platform loop with Welch t-tests -> result table,        *)
(* and Streamlit runs the script again from the top on every interaction.  *)
(*                                                                         *)
(* Numbers.  A float is modelled by an exact value <<n, d>>: a reduced     *)
(* fraction n/d with d > 0, or NaN = <<0, 0>>, or +inf = <<1, 0>>.  Counts *)
(* are non-negative integers, so -inf does not arise.                      *)
(***************************************************************************)
EXTENDS Integers, Sequences, FiniteSets, TLC

\* ------------------------------------------------------------ bounds
\* Largest number of rows of the uploaded table.
MaxRows == 4

\* ------------------------------------------------------- float values
NaN == <<0, 0>>
Inf == <<1, 0>>

IsNaN(x) == x = NaN
IsInf(x) == x = Inf
IsNum(x) == x[2] > 0

Abs(n) == IF n < 0 THEN -n ELSE n

RECURSIVE GCD(_, _)
GCD(a, b) == IF b = 0 THEN a ELSE GCD(b, a % b)

\* n/d for d > 0, reduced.
Frac(n, d) == LET g == GCD(Abs(n), d) IN <<n \div g, d \div g>>

Zero == <<0, 1>>
FromInt(n) == <<n, 1>>

\* Arithmetic on finite values, reduced before multiplying so that the
\* intermediate products stay small.
RAdd(x, y) ==
    LET g == GCD(x[2], y[2])
    IN  Frac(x[1] * (y[2] \div g) + y[1] * (x[2] \div g), (x[2] \div g) * y[2])
RNeg(x) == <<-x[1], x[2]>>
RSub(x, y) == RAdd(x, RNeg(y))
RMul(x, y) ==
    LET g1 == GCD(Abs(x[1]), y[2])
        g2 == GCD(Abs(y[1]), x[2])
    IN  IF x[1] = 0 \/ y[1] = 0 THEN <<0, 1>>
        ELSE <<(x[1] \div g1) * (y[1] \div g2), (x[2] \div g2) * (y[2] \div g1)>>
\* x / y for y > 0.
RDivPos(x, y) == RMul(x, <<y[2], y[1]>>)
\* x < y, by integer parts and then the reciprocals of the remainders, so
\* that nothing is multiplied.
RECURSIVE RLess(_, _)
RLess(x, y) ==
    LET qx == x[1] \div x[2]
        qy == y[1] \div y[2]
        rx == x[1] % x[2]
        ry == y[1] % y[2]
    IN  IF qx # qy THEN qx < qy
        ELSE IF rx = 0 THEN ry > 0
        ELSE IF ry = 0 THEN FALSE
        ELSE RLess(<<y[2], ry>>, <<x[2], rx>>)

\* Series / Series on two integer columns: numpy true division, which
\* gives NaN for 0/0 and inf for k/0, k > 0, and raises nothing.
Divide(opens, sends) ==
    IF sends = 0
    THEN IF opens = 0 THEN NaN ELSE Inf
    ELSE Frac(opens, sends)

\* ------------------------------------------------------- sequences
RECURSIVE SeqSum(_)
SeqSum(s) == IF s = <<>> THEN Zero ELSE RAdd(Head(s), SeqSum(Tail(s)))

DropNaN(s) == SelectSeq(s, LAMBDA x : ~IsNaN(x))

HasInf(s) == \E i \in DOMAIN s : IsInf(s[i])

\* Series.mean(): skipna=True drops the NaN entries; the mean of nothing is
\* NaN; a sum that holds +inf is +inf.
Mean(s) ==
    LET v == DropNaN(s) IN
    IF v = <<>> THEN NaN
    ELSE IF HasInf(v) THEN Inf
    ELSE RDivPos(SeqSum(v), FromInt(Len(v)))

\* Sample variance (ddof = 1) of a finite sample of at least two values.
Variance(s) ==
    LET m == Mean(s)
        sq == [i \in DOMAIN s |-> RMul(RSub(s[i], m), RSub(s[i], m))]
    IN RDivPos(SeqSum(sq), FromInt(Len(s) - 1))

\* ------------------------------------------------------- Welch t-test
\* A p-value is NaN or the two-sided tail probability of Student's t with
\* df degrees of freedom beyond |t|, kept as the pair that determines it:
\* [t2 |-> t squared (Inf when the statistic is infinite), df |-> df].
PValue(t2, df) == [t2 |-> t2, df |-> df]
\* The NaN p-value.
PNaN == PValue(NaN, NaN)

\* Squared 97.5% quantiles of Student's t, in hundredths (rounded up), at
\* df = Crit975[i][1] / 4.  The quantile falls as df grows.
Crit975 == << <<4, 16145>>, <<5, 6445>>, <<6, 3621>>, <<7, 2450>>,
              <<8, 1852>>, <<10, 1278>>, <<12, 1013>>, <<14, 865>>,
              <<16, 771>>, <<20, 661>>, <<24, 599>>, <<28, 560>>,
              <<32, 532>> >>

\* The squared critical value used at df >= 1: that of the last table
\* entry at or below df, which is at or above the exact quantile at df.
Crit2(df) ==
    LET i == CHOOSE j \in DOMAIN Crit975 :
                /\ ~RLess(df, <<Crit975[j][1], 4>>)
                /\ j < Len(Crit975) => RLess(df, <<Crit975[j + 1][1], 4>>)
    IN  <<Crit975[i][2], 100>>

\* pvalue < 0.05.  A comparison with NaN is False.
BelowAlpha(p) ==
    /\ p # PNaN
    /\ \/ IsInf(p.t2)
       \/ RLess(Crit2(p.df), p.t2)

\* ttest_ind(a, b, equal_var=False, nan_policy='omit').pvalue.  NaN entries
\* are dropped from each sample; a sample of fewer than two values has no
\* variance and one holding inf has none either (inf - inf), and the
\* statistic is then NaN.  With both variances 0 the denominator is 0: the
\* statistic is 0/0 = NaN for equal means and +-inf otherwise, where scipy
\* sets the NaN df to 1 and the p-value is 0.  Nothing is raised.
TTestInd(a, b) ==
    LET x == DropNaN(a)
        y == DropNaN(b)
    IN  IF Len(x) < 2 \/ Len(y) < 2 \/ HasInf(x) \/ HasInf(y) THEN PNaN
        ELSE LET n1 == Len(x)
                 n2 == Len(y)
                 vn1 == RDivPos(Variance(x), FromInt(n1))
                 vn2 == RDivPos(Variance(y), FromInt(n2))
                 d == RSub(Mean(x), Mean(y))
                 s == RAdd(vn1, vn2)
             IN  IF s = Zero
                 THEN IF d = Zero THEN PNaN ELSE PValue(Inf, FromInt(1))
                 ELSE PValue(RDivPos(RMul(d, d), s),
                             RDivPos(RMul(s, s),
                                     RAdd(RDivPos(RMul(vn1, vn1), FromInt(n1 - 1)),
                                          RDivPos(RMul(vn2, vn2), FromInt(n2 - 1)))))

\* ------------------------------------------------------- the table
\* The values a key column may hold, in Python's sort order (str by code
\* point, int by value).  Day and Entity are text columns, Slot is numeric.
DayValues == <<"Mon", "Tue">>
EntityValues == <<"A", "B">>
SlotValues == <<1, 2>>

ColumnValues(col) ==
    CASE col = "Day" -> DayValues
      [] col = "Entity" -> EntityValues
      [] col = "Slot" -> SlotValues

\* The position of value v in column col's sort order.
Rank(col, v) == CHOOSE i \in DOMAIN ColumnValues(col) : ColumnValues(col)[i] = v

Range(s) == {s[i] : i \in DOMAIN s}

\* Series.unique(): the values of a column.
Unique(table, col) == {table[i][col] : i \in DOMAIN table}

\* One row of the uploaded file: the keys, the variant code and the six
\* count columns "Direct Opens (Android Push)", "Total Opens (Android
\* Push)", "Sends (Android Push)" and their iOS equivalents.
Row(key, variant, cnt) ==
    [Day |-> key[1], Entity |-> key[2], Slot |-> key[3], Variant |-> variant,
     DirectOpensAndroid |-> cnt[1], TotalOpensAndroid |-> cnt[2],
     SendsAndroid |-> cnt[3],
     DirectOpensiOS |-> cnt[4], TotalOpensiOS |-> cnt[5], SendsiOS |-> cnt[6]]

\* ------------------------------------------------------- state
VARIABLES
    uploaded_file,    \* the rows of the uploaded CSV, as read_csv parses them
    day_filter,       \* widget state: the selected Days (a set: isin)
    entity_filter,    \* widget state: the selected Entities
    slot_filter,      \* widget state: the selected Slots
    platform_filter,  \* widget state: the selected platforms, in order
    group_cols,       \* widget state: the grouping columns, in order
    pc,               \* where the running script is
    df,               \* the table of this run
    filtered_df,      \* the filtered table of this run
    metrics,          \* the overview tiles: <<platform, dor, tor>>
    groups,           \* the group keys groupby iterates over, in its order
    gi,               \* the group the loop is at
    pi,               \* the platform the inner loop is at
    results,          \* the list the loop appends to
    outcome,          \* what the run ended with
    prev_results      \* <<the result list of the previous run>>, if any

inputs == <<uploaded_file, day_filter, entity_filter, slot_filter,
            platform_filter, group_cols>>
vars == <<uploaded_file, day_filter, entity_filter, slot_filter,
          platform_filter, group_cols, pc, df, filtered_df, metrics, groups,
          gi, pi, results, outcome, prev_results>>

\* ------------------------------------------------------- operations
\* df['Variant'].replace({'VAR1': 'PR', 'VAR2': 'Social'}): other codes stay.
ReplaceVariant(v) ==
    CASE v = "VAR1" -> "PR"
      [] v = "VAR2" -> "Social"
      [] OTHER -> v

\* The four derived columns of one row.
WithRates(r) ==
    r @@ [Android_Direct_Open_Rate |-> Divide(r.DirectOpensAndroid, r.SendsAndroid),
          Android_Total_Open_Rate |-> Divide(r.TotalOpensAndroid, r.SendsAndroid),
          iOS_Direct_Open_Rate |-> Divide(r.DirectOpensiOS, r.SendsiOS),
          iOS_Total_Open_Rate |-> Divide(r.TotalOpensiOS, r.SendsiOS)]

\* Selected without the Slot test.
SelectedDayEntity(r) ==
    /\ r.Day \in day_filter
    /\ r.Entity \in entity_filter

\* The row mask of the filter: isin on Day, Entity and Slot.
Selected(r) ==
    /\ r.Day \in day_filter
    /\ r.Entity \in entity_filter
    /\ r.Slot \in slot_filter

Column(table, col) == [i \in DOMAIN table |-> table[i][col]]

\* The rate columns of a platform: anything but 'Android' takes the iOS pair.
DorCol(platform) ==
    IF platform = "Android" THEN "Android_Direct_Open_Rate"
    ELSE "iOS_Direct_Open_Rate"
TorCol(platform) ==
    IF platform = "Android" THEN "Android_Total_Open_Rate"
    ELSE "iOS_Total_Open_Rate"

\* summarize(platform): the column means of the filtered table.
Summarize(platform) ==
    <<platform, Mean(Column(filtered_df, DorCol(platform))),
      Mean(Column(filtered_df, TorCol(platform)))>>

\* The key tuple of a row over the grouping columns.
GroupKey(r, cols) == [i \in DOMAIN cols |-> r[cols[i]]]

\* Tuple order: the first differing position decides.
KeyLess(cols, a, b) ==
    \E i \in DOMAIN cols :
        /\ \A j \in 1..(i - 1) : a[j] = b[j]
        /\ Rank(cols[i], a[i]) < Rank(cols[i], b[i])

\* groupby(cols): the distinct key tuples, sorted (sort=True).
GroupKeys(table, cols) ==
    LET ks == {GroupKey(table[i], cols) : i \in DOMAIN table}
    IN  [n \in 1..Cardinality(ks) |->
            CHOOSE k \in ks :
                Cardinality({k2 \in ks : KeyLess(cols, k2, k)}) = n - 1]

\* The rows of one group, in table order.
GroupDf(table, cols, key) ==
    SelectSeq(table, LAMBDA r : GroupKey(r, cols) = key)

\* VariantRows over the rows that have an iOS direct open rate only.
VariantRowsWithRate(group_df, variant) ==
    SelectSeq(group_df, LAMBDA r : /\ r.Variant = variant
                                   /\ ~IsNaN(r.iOS_Direct_Open_Rate))

\* group_df[group_df['Variant'] == variant]
VariantRows(group_df, variant) ==
    SelectSeq(group_df, LAMBDA r : r.Variant = variant)

\* BothPresent with "or" for "and".
EitherPresent(pr, social) == Len(pr) > 0 \/ Len(social) > 0

\* The guard of the append: len(pr) > 0 and len(social) > 0.
BothPresent(pr, social) == Len(pr) > 0 /\ Len(social) > 0

\* Flag written as "not (pvalue >= 0.05)", which a NaN p-value passes.
FlagNotAbove(p) ==
    IF p = PNaN \/ BelowAlpha(p) THEN "significant" ELSE "not significant"

\* The flag of a p-value: the check mark or the cross.
Flag(p) == IF BelowAlpha(p) THEN "significant" ELSE "not significant"

\* The dict the loop appends for one group and platform.
ResultRow(cols, key, platform, pr, social) ==
    LET dor_ttest == TTestInd(Column(pr, DorCol(platform)),
                              Column(social, DorCol(platform)))
        tor_ttest == TTestInd(Column(pr, TorCol(platform)),
                              Column(social, TorCol(platform)))
    IN  [group |-> [i \in DOMAIN cols |-> <<cols[i], key[i]>>],
         Platform |-> platform,
         PR_DOR |-> Mean(Column(pr, DorCol(platform))),
         Social_DOR |-> Mean(Column(social, DorCol(platform))),
         PR_TOR |-> Mean(Column(pr, TorCol(platform))),
         Social_TOR |-> Mean(Column(social, TorCol(platform))),
         DOR_pvalue |-> dor_ttest,
         TOR_pvalue |-> tor_ttest,
         DOR_Significant |-> Flag(dor_ttest),
         TOR_Significant |-> Flag(tor_ttest)]

\* NewResults that keeps the list of the session.
KeptResults(old) == old

\* results = []: the list of a run starts empty, whatever an earlier run left.
NewResults(old) == <<>>

\* PlatformAt over reversed(platform_filter).
PlatformAtReversed(p) == platform_filter[Len(platform_filter) + 1 - p]

\* for platform in platform_filter: the platform of the p-th inner iteration.
PlatformAt(p) == platform_filter[p]

\* The loop position after (g, p): the next platform, and after the last
\* platform the first platform of the next group.
NextPosition(g, p) ==
    IF p < Len(platform_filter) THEN <<g, p + 1>> ELSE <<g + 1, 1>>

\* What the run shows once the loop is over: the warning for an empty
\* table; else the table and the download, then the note when no DOR flag
\* is the check mark and the bar chart otherwise.  The chart's labels are
\* Platform + " " + the first grouping column, which raises TypeError when
\* that column is numeric (Slot).
Shown(res) ==
    IF res = <<>> THEN "warning"
    ELSE IF \A i \in DOMAIN res : res[i].DOR_Significant # "significant"
         THEN "info"
         ELSE IF group_cols[1] = "Slot" THEN "TypeError" ELSE "chart"

\* ------------------------------------------------------- actions
\* Lines 25-27: read the upload and rename the variant codes.
ReadCsv ==
    /\ pc = "read"
    /\ df' = [i \in DOMAIN uploaded_file |->
                [uploaded_file[i] EXCEPT !.Variant = ReplaceVariant(@)]]
    /\ pc' = "rates"
    /\ UNCHANGED <<inputs, filtered_df, metrics, groups, gi, pi, results,
                   outcome, prev_results>>

\* Lines 30-33: add the four open-rate columns.
ComputeRates ==
    /\ pc = "rates"
    /\ df' = [i \in DOMAIN df |-> WithRates(df[i])]
    /\ pc' = "filter"
    /\ UNCHANGED <<inputs, filtered_df, metrics, groups, gi, pi, results,
                   outcome, prev_results>>

\* Lines 37-42: the sidebar selections restrict the rows.
Filter ==
    /\ pc = "filter"
    /\ filtered_df' = SelectSeq(df, Selected)
    /\ pc' = "summary"
    /\ UNCHANGED <<inputs, df, metrics, groups, gi, pi, results, outcome,
                   prev_results>>

\* Lines 46-61: one pair of tiles per selected platform.
Overview ==
    /\ pc = "summary"
    /\ metrics' = [i \in DOMAIN platform_filter |-> Summarize(platform_filter[i])]
    /\ pc' = "group"
    /\ UNCHANGED <<inputs, df, filtered_df, groups, gi, pi, results, outcome,
                   prev_results>>

\* Lines 66-74: without grouping columns nothing more is shown; with them
\* the result list is created and the groupby loop is entered.  A loop over
\* no group, or whose inner loop has no platform, runs no body.
StartGroups ==
    /\ pc = "group"
    /\ IF group_cols = <<>>
       THEN /\ pc' = "done"
            /\ outcome' = "no table"
            /\ UNCHANGED <<groups, gi, pi, results>>
       ELSE LET gs == GroupKeys(filtered_df, group_cols) IN
            /\ groups' = gs
            /\ results' = NewResults(results)
            /\ gi' = IF platform_filter = <<>> THEN Len(gs) + 1 ELSE 1
            /\ pi' = 1
            /\ pc' = "loop"
            /\ UNCHANGED outcome
    /\ UNCHANGED <<inputs, df, filtered_df, metrics, prev_results>>

\* Lines 77-101: the body of the inner loop for one group and one platform.
PlatformStep ==
    /\ pc = "loop"
    /\ gi <= Len(groups)
    /\ LET group_df == GroupDf(filtered_df, group_cols, groups[gi])
           platform == PlatformAt(pi)
           pr == VariantRows(group_df, "PR")
           social == VariantRows(group_df, "Social")
           nxt == NextPosition(gi, pi)
       IN  /\ results' = IF BothPresent(pr, social)
                         THEN Append(results,
                                     ResultRow(group_cols, groups[gi], platform,
                                               pr, social))
                         ELSE results
           /\ gi' = nxt[1]
           /\ pi' = nxt[2]
    /\ UNCHANGED <<inputs, pc, df, filtered_df, metrics, groups, outcome,
                   prev_results>>

\* Lines 103-135: the result table, the download and the chart.
ShowResults ==
    /\ pc = "loop"
    /\ gi > Len(groups)
    /\ outcome' = Shown(results)
    /\ pc' = "done"
    /\ UNCHANGED <<inputs, df, filtered_df, metrics, groups, gi, pi, results,
                   prev_results>>

\* Streamlit runs the script again from the top, with the same upload and
\* the same widget state.  The names of the script are unbound until the
\* new run assigns them; the last run's list is kept aside for comparison.
Rerun ==
    /\ pc = "done"
    /\ prev_results' = <<results>>
    /\ pc' = "read"
    /\ df' = <<>>
    /\ filtered_df' = <<>>
    /\ metrics' = <<>>
    /\ groups' = <<>>
    /\ gi' = 1
    /\ pi' = 1
    /\ outcome' = "running"
    /\ UNCHANGED <<inputs, results>>

\* One run of the script.
Run ==
    \/ ReadCsv
    \/ ComputeRates
    \/ Filter
    \/ Overview
    \/ StartGroups
    \/ PlatformStep
    \/ ShowResults

\* The session: runs, one after the other.
Next ==
    \/ Run
    \/ Rerun

\* ------------------------------------------------------- inputs
\* The tables of at most MaxRows rows drawn from a catalog of rows, in
\* catalog order: the script reads the table through isin masks, a sorted
\* groupby, means and t-tests, none of which looks at the order of the rows.
Tables(catalog) ==
    UNION {{[i \in 1..n |-> catalog[f[i]]] :
                f \in {g \in [1..n -> DOMAIN catalog] :
                          \A i \in 1..(n - 1) : g[i] <= g[i + 1]}} :
           n \in 0..MaxRows}

\* The pairs <<variant, counts>>, as a sequence.
Bodies(variants, counts) ==
    [i \in 1..(Len(variants) * Len(counts)) |->
        <<variants[((i - 1) \div Len(counts)) + 1],
          counts[((i - 1) % Len(counts)) + 1]>>]

\* The rows keys x bodies, as a sequence.
Catalog(keys, bodies) ==
    [i \in 1..(Len(keys) * Len(bodies)) |->
        Row(keys[((i - 1) \div Len(bodies)) + 1],
            bodies[((i - 1) % Len(bodies)) + 1][1],
            bodies[((i - 1) % Len(bodies)) + 1][2])]

\* The state as a run starts.
Start(table, days, entities, slots, platforms, cols) ==
    /\ uploaded_file = table
    /\ day_filter = days
    /\ entity_filter = entities
    /\ slot_filter = slots
    /\ platform_filter = platforms
    /\ group_cols = cols
    /\ pc = "read"
    /\ df = <<>>
    /\ filtered_df = <<>>
    /\ metrics = <<>>
    /\ groups = <<>>
    /\ gi = 1
    /\ pi = 1
    /\ results = <<>>
    /\ outcome = "running"
    /\ prev_results = <<>>

\* Count columns: Android direct, total, sends; iOS direct, total, sends.
\* The rates they give (DOR, TOR): Android (1, 1), (1/8, 1), (1/8, 1/4),
\* (0, 1), (NaN, NaN), (inf, inf); iOS (1/2, 1), (1/2, 1/2), (inf, inf),
\* (1/2, 1/2), (0, 1), (NaN, NaN).
StatCounts == << <<8, 8, 8, 1, 2, 2>>,
                 <<1, 8, 8, 1, 1, 2>>,
                 <<1, 2, 8, 1, 1, 0>>,
                 <<0, 8, 8, 1, 1, 2>>,
                 <<0, 0, 0, 0, 2, 2>>,
                 <<2, 3, 0, 0, 0, 0>> >>

\* Statistics: one key, so one group; every mix of count rows; the default
\* widget state (everything selected, both platforms, Day and Entity).
InitStat ==
    \E table \in Tables(Catalog(<< <<"Mon", "A", 1>> >>,
                                Bodies(<<"VAR1", "VAR2">>, StatCounts))) :
        Start(table, Unique(table, "Day"), Unique(table, "Entity"),
              Unique(table, "Slot"), <<"Android", "iOS">>, <<"Day", "Entity">>)

SpecStat == InitStat /\ [][Run]_vars

\* Grouping: three keys whose Day order and Entity order differ; PR rows with
\* and without iOS sends; every row selected; the platform and grouping
\* widgets in every listed state.
GroupKeyTuples == << <<"Mon", "B", 1>>, <<"Tue", "A", 2>>, <<"Tue", "B", 2>> >>
GroupBodies == << <<"VAR1", <<1, 2, 2, 0, 0, 0>> >>,
                  <<"VAR1", <<2, 2, 2, 1, 1, 1>> >>,
                  <<"VAR2", <<2, 2, 2, 1, 1, 1>> >> >>
PlatformChoices == {<<"Android", "iOS">>, <<"iOS", "Android">>, <<"iOS">>, <<>>}
GroupColChoices == {<<"Day", "Entity">>, <<"Entity", "Day">>, <<"Slot">>, <<>>}

InitGroup ==
    \E table \in Tables(Catalog(GroupKeyTuples, GroupBodies)) :
        \E platforms \in PlatformChoices, cols \in GroupColChoices :
            Start(table, Unique(table, "Day"), Unique(table, "Entity"),
                  Unique(table, "Slot"), platforms, cols)

SpecGroup == InitGroup /\ [][Run]_vars

\* Filtering: every subset of the observed Days, Entities and Slots, with
\* both platforms selected and with one.
FilterKeyTuples == << <<"Mon", "A", 1>>, <<"Mon", "B", 2>>, <<"Tue", "A", 2>> >>
FilterCounts == << <<1, 2, 2, 1, 1, 2>> >>

InitFilter ==
    \E table \in Tables(Catalog(FilterKeyTuples, Bodies(<<"VAR1", "VAR2">>, FilterCounts))) :
        \E days \in SUBSET Unique(table, "Day"),
           entities \in SUBSET Unique(table, "Entity"),
           slots \in SUBSET Unique(table, "Slot"),
           platforms \in {<<"Android", "iOS">>, <<"iOS">>} :
            Start(table, days, entities, slots, platforms, <<"Day", "Entity">>)

SpecFilter == InitFilter /\ [][Run]_vars

\* Sessions: the script run again and again over one upload and one widget
\* state.
RerunKeyTuples == << <<"Mon", "B", 1>>, <<"Tue", "A", 2>> >>
RerunCounts == << <<1, 2, 2, 0, 0, 0>>, <<2, 2, 2, 1, 1, 0>> >>

InitRerun ==
    \E table \in Tables(Catalog(RerunKeyTuples, Bodies(<<"VAR1", "VAR2">>, RerunCounts))) :
        \E platforms \in {<<"Android", "iOS">>, <<"iOS">>},
           cols \in {<<"Day", "Entity">>, <<"Entity">>, <<>>} :
            Start(table, Unique(table, "Day"), Unique(table, "Entity"),
                  Unique(table, "Slot"), platforms, cols)

SpecRerun == InitRerun /\ [][Next]_vars

\* ------------------------------------------------------- properties
\* Stages of a run.
RatesComputed == pc \notin {"read", "rates"}
FilterDone == pc \in {"summary", "group", "loop", "done"}
LoopEntered == pc = "loop" \/ (pc = "done" /\ group_cols # <<>>)
LoopDone == pc = "done" /\ group_cols # <<>>

RateColumns ==
    {<<"Android_Direct_Open_Rate", "DirectOpensAndroid", "SendsAndroid">>,
     <<"Android_Total_Open_Rate", "TotalOpensAndroid", "SendsAndroid">>,
     <<"iOS_Direct_Open_Rate", "DirectOpensiOS", "SendsiOS">>,
     <<"iOS_Total_Open_Rate", "TotalOpensiOS", "SendsiOS">>}

\* The key tuple a result row was appended for.
KeyOf(r) == [i \in DOMAIN r.group |-> r.group[i][2]]

\* The rows of the filtered table with a key and a variant, by position.
Members(key, variant) ==
    {j \in DOMAIN filtered_df :
        /\ \A c \in DOMAIN group_cols : filtered_df[j][group_cols[c]] = key[c]
        /\ filtered_df[j].Variant = variant}

\* The values of a column over a set of row positions, in table order.
RECURSIVE Sample(_, _, _)
Sample(rows, col, n) ==
    IF n = 0 THEN <<>>
    ELSE IF n \in rows
         THEN Append(Sample(rows, col, n - 1), filtered_df[n][col])
         ELSE Sample(rows, col, n - 1)

\* C1: every rate is opens/sends when the platform's Sends > 0 and null
\* (NaN, the table's null) when Sends = 0, and no infinity reaches the
\* filtered table, the means or the t-test inputs.
C1_RatesNullOnZeroSends ==
    /\ RatesComputed =>
         \A i \in DOMAIN df : \A c \in RateColumns :
            df[i][c[1]] = IF df[i][c[3]] > 0
                          THEN Frac(df[i][c[2]], df[i][c[3]])
                          ELSE NaN
    /\ FilterDone =>
         \A i \in DOMAIN filtered_df : \A c \in RateColumns :
            ~IsInf(filtered_df[i][c[1]])
    /\ \A i \in DOMAIN metrics : ~IsInf(metrics[i][2]) /\ ~IsInf(metrics[i][3])
    /\ LoopEntered =>
         \A i \in DOMAIN results :
            /\ ~IsInf(results[i].PR_DOR) /\ ~IsInf(results[i].Social_DOR)
            /\ ~IsInf(results[i].PR_TOR) /\ ~IsInf(results[i].Social_TOR)

\* C2: a result row exists only for a group whose PR partition and Social
\* partition are both non-empty, and it carries that group's means, not
\* placeholder values.
C2_NoRowWithoutBothVariants ==
    LoopEntered =>
        \A i \in DOMAIN results :
            LET r == results[i]
                pr == Members(KeyOf(r), "PR")
                social == Members(KeyOf(r), "Social")
                n == Len(filtered_df)
            IN  /\ pr # {}
                /\ social # {}
                /\ r.PR_DOR = Mean(Sample(pr, DorCol(r.Platform), n))
                /\ r.Social_DOR = Mean(Sample(social, DorCol(r.Platform), n))
                /\ r.PR_TOR = Mean(Sample(pr, TorCol(r.Platform), n))
                /\ r.Social_TOR = Mean(Sample(social, TorCol(r.Platform), n))

\* C2's case: the loop is over, it emitted rows for one group and skipped
\* another whose PR or Social partition is empty.
C2_Witness ==
    /\ LoopDone
    /\ results # <<>>
    /\ \E g \in DOMAIN groups :
          Members(groups[g], "PR") = {} \/ Members(groups[g], "Social") = {}

\* Order on values that may be infinite.
VLess(x, y) == IF IsInf(x) THEN FALSE ELSE IF IsInf(y) THEN TRUE ELSE RLess(x, y)

\* The Winner label of two DOR means.
WinnerOf(pr_dor, social_dor) ==
    IF IsNaN(pr_dor) \/ IsNaN(social_dor) THEN "N/A"
    ELSE IF VLess(social_dor, pr_dor) THEN "PR"
    ELSE IF VLess(pr_dor, social_dor) THEN "Social"
    ELSE "Tie"

\* The Margin-of-Victory of two DOR means, NaN for null.
MarginOf(pr_dor, social_dor) ==
    IF IsNaN(pr_dor) \/ IsNaN(social_dor) \/ social_dor = Zero THEN NaN
    ELSE IF IsInf(social_dor) THEN NaN
    ELSE IF IsInf(pr_dor) THEN Inf
    ELSE RMul(RDivPos(RSub(pr_dor, social_dor), social_dor), FromInt(100))

\* C3: every result row carries a Winner label in {PR, Social, Tie, N/A},
\* decided by the DOR means alone: PR when the PR mean is greater, Social
\* when it is less, Tie when equal, N/A when either mean is null.
C3_WinnerFromDorMeans ==
    LoopEntered =>
        \A i \in DOMAIN results :
            /\ "Winner" \in DOMAIN results[i]
            /\ results[i].Winner \in {"PR", "Social", "Tie", "N/A"}
            /\ results[i].Winner = WinnerOf(results[i].PR_DOR, results[i].Social_DOR)

\* C4: every result row carries a Margin-of-Victory, null when Social_DOR
\* is 0 or either DOR mean is null and (PR_DOR - Social_DOR) / Social_DOR
\* x 100 otherwise.
C4_MarginOfVictory ==
    LoopEntered =>
        \A i \in DOMAIN results :
            /\ "Margin_of_Victory" \in DOMAIN results[i]
            /\ results[i].Margin_of_Victory =
                  MarginOf(results[i].PR_DOR, results[i].Social_DOR)

\* A sample the t-test cannot use: fewer than two non-null observations, or
\* no spread.
Degenerate(sample) ==
    LET x == DropNaN(sample)
    IN  \/ Len(x) < 2
        \/ \A i, j \in DOMAIN x : x[i] = x[j]

\* C5: when the PR sample or the Social sample of a metric is degenerate,
\* the row's p-value for that metric is null and its flag is neither
\* "significant" nor "not significant".
C5_DegenerateTestIsNull ==
    LoopEntered =>
        \A i \in DOMAIN results :
            LET r == results[i]
                n == Len(filtered_df)
                pr == Members(KeyOf(r), "PR")
                social == Members(KeyOf(r), "Social")
            IN  /\ (\/ Degenerate(Sample(pr, DorCol(r.Platform), n))
                    \/ Degenerate(Sample(social, DorCol(r.Platform), n)))
                   => /\ r.DOR_pvalue = PNaN
                      /\ r.DOR_Significant \notin {"significant", "not significant"}
                /\ (\/ Degenerate(Sample(pr, TorCol(r.Platform), n))
                    \/ Degenerate(Sample(social, TorCol(r.Platform), n)))
                   => /\ r.TOR_pvalue = PNaN
                      /\ r.TOR_Significant \notin {"significant", "not significant"}

\* How often a row occurs in a table.
Count(table, r) == Cardinality({i \in DOMAIN table : table[i] = r})

\* C6: the filtered table holds exactly the rows of the table whose Day,
\* Entity and Slot are all selected, whatever the platform selection; with
\* an empty Day, Entity or Slot selection it is empty and the run ends
\* with no result row and the "no comparisons" warning.
C6_FilterExact ==
    FilterDone =>
        /\ \A r \in Range(df) \cup Range(filtered_df) :
              Count(filtered_df, r) =
                 IF /\ r.Day \in day_filter
                    /\ r.Entity \in entity_filter
                    /\ r.Slot \in slot_filter
                 THEN Count(df, r) ELSE 0
        /\ (day_filter = {} \/ entity_filter = {} \/ slot_filter = {}) =>
              /\ filtered_df = <<>>
              /\ pc = "done" => results = <<>> /\ outcome = "warning"

\* C6's case: rows were uploaded, one selection is empty while another is
\* not, and the run has ended.
C6_Witness ==
    /\ pc = "done"
    /\ df # <<>>
    /\ slot_filter = {}
    /\ day_filter # {}
    /\ platform_filter = <<"iOS">>
    /\ outcome = "warning"

\* The position of a result row's group in the iteration order and of its
\* platform in the platform selection.
GroupPos(r) == CHOOSE g \in DOMAIN groups : groups[g] = KeyOf(r)
PlatformPos(r) == CHOOSE p \in DOMAIN platform_filter : platform_filter[p] = r.Platform

\* C7: the result list is ordered group-major, platform-minor, so it holds
\* at most one row per (group key, platform).
C7_GroupMajorOrder ==
    LoopEntered =>
        /\ \A g, h \in DOMAIN groups : groups[g] = groups[h] => g = h
        /\ \A i, j \in DOMAIN results :
              i < j =>
                 \/ GroupPos(results[i]) < GroupPos(results[j])
                 \/ /\ GroupPos(results[i]) = GroupPos(results[j])
                    /\ PlatformPos(results[i]) < PlatformPos(results[j])

\* C7's case: two groups, each with a row for each of two platforms.
C7_Witness ==
    /\ LoopDone
    /\ Len(results) = 4
    /\ KeyOf(results[1]) # KeyOf(results[4])
    /\ results[1].Platform = "iOS"
    /\ results[2].Platform = "Android"

C9_FlagsFollowOwnPValue ==
    LoopEntered =>
        \A i \in DOMAIN results :
            LET r == results[i] IN
            /\ r.DOR_Significant \in {"significant", "not significant"}
            /\ r.TOR_Significant \in {"significant", "not significant"}
            /\ r.DOR_Significant = "significant" <=> BelowAlpha(r.DOR_pvalue)
            /\ r.TOR_Significant = "significant" <=> BelowAlpha(r.TOR_pvalue)

\* C9's case: a row whose DOR test has a finite statistic and is
\* significant while its TOR test is not, and a row where it is the TOR
\* test that is significant.
C9_Witness ==
    /\ LoopDone
    /\ \E i \in DOMAIN results :
          /\ IsNum(results[i].DOR_pvalue.t2)
          /\ results[i].DOR_Significant = "significant"
          /\ results[i].TOR_Significant = "not significant"
    /\ \E i \in DOMAIN results :
          /\ results[i].DOR_Significant = "not significant"
          /\ results[i].TOR_Significant = "significant"

\* The group keys of the filtered table that have a PR row and a Social row.
ComparableKeys ==
    {k \in {GroupKey(filtered_df[j], group_cols) : j \in DOMAIN filtered_df} :
        Members(k, "PR") # {} /\ Members(k, "Social") # {}}

\* C10: a group gets a row for every selected platform or for none, by its
\* variants alone, so the loop ends with (groups that have a PR row and a
\* Social row) x (selected platforms) rows.
C10_AllPlatformsOrNone ==
    LoopDone =>
        /\ Len(results) = Cardinality(ComparableKeys) * Len(platform_filter)
        /\ \A k \in ComparableKeys : \A p \in DOMAIN platform_filter :
              \E i \in DOMAIN results :
                 KeyOf(results[i]) = k /\ results[i].Platform = platform_filter[p]

\* C10's case: a group whose PR rows have no iOS rate at all still gets its
\* iOS row, next to its Android row, while another group gets none.
C10_Witness ==
    /\ LoopDone
    /\ Len(platform_filter) = 2
    /\ \E i \in DOMAIN results :
          results[i].Platform = "iOS" /\ IsNaN(results[i].PR_DOR)
    /\ Cardinality(ComparableKeys) < Len(groups)

====
